---------------------------- MODULE Spec2Model ----------------------------
(***************************************************************************)
(* The content-moderation workflow of src/main.py (a LangGraph StateGraph  *)
(* over ModerationState) and its caller run_moderation of src/app.py.      *)
(*                                                                         *)
(* Python values:                                                          *)
(*   - a str is a sequence of one-character strings (content) or of word   *)
(*     tokens (explanation): "" is << >>;                                  *)
(*   - a dict is a function from its keys; a missing key is a key outside  *)
(*     the DOMAIN; {} is the function with the empty domain;               *)
(*   - None is a reserved value of the type of the field it sits in        *)
(*     (NoneLabel, NoneText, NoneDict), which no str or dict of the model  *)
(*     equals.                                                             *)
(***************************************************************************)
EXTENDS Naturals, Sequences, FiniteSets, TLC

VARIABLES
    content,    \* the argument of run_moderation(content)
    resp,       \* what the external capability answers for this invocation
    pc,         \* the graph node about to run / where the invocation stands
    state,      \* the ModerationState threaded through the graph
    route,      \* the value routing_decision returned ("" before it ran)
    ran,        \* the graph nodes that have run, in order
    calls,      \* number of chain.invoke calls made
    request,    \* the arguments of the last chain.invoke (<< >> before it)
    exc,        \* the exception in flight ("" when none)
    result,     \* what run_moderation returned (<< >> before it returns)
    call,       \* a direct call of one node function: [fn, arg, raised, ret]
    log,        \* the direct calls of resolvers made so far: [fn, arg, ret] each
    invs        \* concurrent invocations: each one's own content, resp, pc, ...

vars == <<content, resp, pc, state, route, ran, calls, request, exc, result, call, log, invs>>

---------------------------------------------------------------------------
(* Bounds *)

\* content is a concatenation of at most MaxPieces fragments
MaxPieces == 3
\* the capability's rationale has at most MaxRationale words
MaxRationale == 1

\* a resolver is called directly at most MaxCalls times in a row
MaxCalls == 3

\* number of invocations running concurrently
NInvocations == 2

---------------------------------------------------------------------------
(* Python values *)

NoneLabel == "<None>"
NoneText == <<"<None>">>
NoneDict == [k \in {"<None>"} |-> TRUE]
EmptyDict == << >>

\* state.get(key, default)
Get(d, key, default) == IF key \in DOMAIN d THEN d[key] ELSE default

\* {**old, **new}, and LangGraph's write of a node's update into the state
\* (every ModerationState key is a last-value channel: a written key replaces)
Merge(old, new) == new @@ old

\* truthiness of an Optional[dict]: None and {} are falsy
Truthy(d) == d # NoneDict /\ DOMAIN d # {}

\* str(v) inside an f-string: None is rendered as the word None
Str(v) == IF v = NoneText THEN <<"None">> ELSE v

---------------------------------------------------------------------------
(* Strings *)

Whitespace == {" ", "\n"}

RECURSIVE LStrip(_)
\* s without its leading whitespace
LStrip(s) ==
    IF s = << >> THEN << >>
    ELSE IF Head(s) \in Whitespace THEN LStrip(Tail(s))
    ELSE s

RECURSIVE RStrip(_)
\* s without its trailing whitespace
RStrip(s) ==
    IF s = << >> THEN << >>
    ELSE IF s[Len(s)] \in Whitespace THEN RStrip(SubSeq(s, 1, Len(s) - 1))
    ELSE s

\* str.strip()
Strip(s) == RStrip(LStrip(s))

RECURSIVE SplitFrom(_, _, _)
\* str.split() scanning s: cur is the word being read, the result is the
\* list of the words of s, a word ending at whitespace or at the end
SplitFrom(s, cur, acc) ==
    IF s = << >> THEN
        (IF cur = << >> THEN acc ELSE Append(acc, cur))
    ELSE IF Head(s) \in Whitespace THEN
        SplitFrom(Tail(s), << >>, IF cur = << >> THEN acc ELSE Append(acc, cur))
    ELSE
        SplitFrom(Tail(s), Append(cur, Head(s)), acc)

\* str.split() with no separator: runs of whitespace separate, no empty words
Split(s) == SplitFrom(s, << >>, << >>)

\* sub in s
Contains(sub, s) ==
    \E i \in 1..(Len(s) + 1) :
        /\ i + Len(sub) - 1 <= Len(s)
        /\ SubSeq(s, i, i + Len(sub) - 1) = sub

Http == <<"h", "t", "t", "p", ":", "/", "/">>
Https == <<"h", "t", "t", "p", "s", ":", "/", "/">>

\* the list ["http://", "https://"] of analyse_content
UrlMarkers == <<Http, Https>>

---------------------------------------------------------------------------
(* ModerationState and SeverityClassification *)

\* Literal["safe", "questionable", "inappropriate", "harmful"]
SeverityLiteral == {"safe", "questionable", "inappropriate", "harmful"}

\* Literal["approve", "flag", "reject", "escalate"]
ActionLiteral == {"approve", "flag", "reject", "escalate"}

ContentIsEmpty == "Content is empty"

---------------------------------------------------------------------------
(* analyse_content *)

\* the test without strip(): not content
IsBlank_only_empty(c) == c = << >>

\* not content or len(content.strip()) == 0
IsBlank(c) == c = << >> \/ Len(Strip(c)) = 0

\* len(content.split(" ")): every single space separates
word_count_split_on_space(c) == Cardinality({ i \in 1..Len(c) : c[i] = " " }) + 1

\* len(content.split())
word_count(c) == Len(Split(c))

\* len(content)
content_length(c) == Len(c)

\* any(url in content for url in ["http://", "https://"])
has_urls(c) == \E i \in 1..Len(UrlMarkers) : Contains(UrlMarkers[i], c)

analysis_metadata(c) ==
    [content_length |-> content_length(c),
     word_count |-> word_count(c),
     has_urls |-> has_urls(c)]

\* state.get("metadata") or {}
PriorMetadata(st) ==
    LET m == Get(st, "metadata", NoneDict)
    IN IF Truthy(m) THEN m ELSE EmptyDict

\* the error flag merged into the prior metadata instead of replacing it
EmptyContentMetadata_merged(st) == Merge(PriorMetadata(st), [error |-> ContentIsEmpty])

\* the metadata written for blank content
EmptyContentMetadata(st) == [error |-> ContentIsEmpty]

\* analyse_content computing the analysis first and adding the error flag to it
analyse_content_mixed(st) ==
    LET c == st["content"]
    IN IF IsBlank(c)
       THEN [metadata |-> Merge(analysis_metadata(c), EmptyContentMetadata(st))]
       ELSE [metadata |-> Merge(PriorMetadata(st), analysis_metadata(c))]

\* the update the node returns
analyse_content(st) ==
    LET c == st["content"]
    IN IF IsBlank(c)
       THEN [metadata |-> EmptyContentMetadata(st)]
       ELSE [metadata |-> Merge(PriorMetadata(st), analysis_metadata(c))]

---------------------------------------------------------------------------
(* classify_severity *)

\* metadata_str: the listing of the metadata, one line per key, or the marker
MetadataStr(st) ==
    LET m == Get(st, "metadata", EmptyDict)
    IN IF Truthy(m) THEN [listing |-> m] ELSE [marker |-> "No metadata available"]

\* the argument of chain.invoke
ChainInput(st) == [content |-> st["content"], metadata |-> MetadataStr(st)]

\* a schema whose severity is any str
Validates_any_label(r) == r.kind = "ok"

\* SeverityClassification accepts the answer: both fields present, severity
\* one of the Literal's values
Validates(r) == r.kind = "ok" /\ r.severity \in SeverityLiteral

\* chain.invoke raises: the capability failed, or its answer is not a
\* SeverityClassification
ChainRaises(r) == ~Validates(r)

\* str(e) of the exception chain.invoke raises
ExcMessage(r) == IF r.kind = "ok" THEN "validation error" ELSE r.kind

\* the update the node returns, chain.invoke having returned response r
classify_severity(st, r) ==
    [severity |-> r.severity, explanation |-> r.explanation]

---------------------------------------------------------------------------
(* routing_decision *)

\* state['severity'] raises KeyError when the key is missing
RoutingRaises(st) == "severity" \notin DOMAIN st

\* routing_decision with two branches' results exchanged
routing_decision_swapped(st) ==
    LET severity == st["severity"]
    IN IF severity = "safe" THEN "approve"
       ELSE IF severity = "questionable" THEN "reject"
       ELSE IF severity = "inappropriate" THEN "flag"
       ELSE IF severity = "harmful" THEN "escalate"
       ELSE "safe"

routing_decision(st) ==
    LET severity == st["severity"]
    IN IF severity = "safe" THEN "approve"
       ELSE IF severity = "questionable" THEN "flag"
       ELSE IF severity = "inappropriate" THEN "reject"
       ELSE IF severity = "harmful" THEN "escalate"
       ELSE "safe"

---------------------------------------------------------------------------
(* approve, flag, reject, escalate: the f-strings, word by word; the fixed *)
(* text of each resolver is one token before and one after the rationale  *)

\* approve returning the rationale alone, without its fixed text
approve_bare(st) ==
    LET original_explanation == Get(st, "explanation", << >>)
    IN [action |-> "approve", explanation |-> Str(original_explanation)]

approve(st) ==
    LET original_explanation == Get(st, "explanation", << >>)
    IN [action |-> "approve",
        explanation |-> <<"approve:approved-and-safe", "Analysis:">>
                        \o Str(original_explanation)]

\* flag with a hidden counter: its text grows with the calls made before
flag_counting(st) ==
    LET original_explanation == Get(st, "explanation", << >>)
    IN [action |-> "flag",
        explanation |-> <<"flag:classified-questionable", "Reason:">>
                        \o Str(original_explanation)
                        \o <<"flag:please-revise">>
                        \o [i \in 1..Len(log) |-> "again"]]

flag(st) ==
    LET original_explanation == Get(st, "explanation", << >>)
    IN [action |-> "flag",
        explanation |-> <<"flag:classified-questionable", "Reason:">>
                        \o Str(original_explanation)
                        \o <<"flag:please-revise">>]

\* reject returning a whole state, its metadata reset
reject_resetting_metadata(st) ==
    LET original_explanation == Get(st, "explanation", << >>)
    IN [action |-> "reject",
        metadata |-> EmptyDict,
        explanation |-> <<"reject:classified-inappropriate", "Reason:">>
                        \o Str(original_explanation)
                        \o <<"reject:cannot-be-published">>]

reject(st) ==
    LET original_explanation == Get(st, "explanation", << >>)
    IN [action |-> "reject",
        explanation |-> <<"reject:classified-inappropriate", "Reason:">>
                        \o Str(original_explanation)
                        \o <<"reject:cannot-be-published">>]

escalate(st) ==
    LET original_explanation == Get(st, "explanation", << >>)
    IN [action |-> "escalate",
        explanation |-> <<"escalate:classified-harmful", "Reason:">>
                        \o Str(original_explanation)
                        \o <<"escalate:escalated-for-review">>]

---------------------------------------------------------------------------
(* The graph *)

\* graph.add_node of the four resolvers
Resolvers == {"approve", "flag", "reject", "escalate"}

\* a mapping that leaves one branch out
PathMap_missing == [approve |-> "approve", flag |-> "flag", reject |-> "reject"]

\* a mapping with two targets exchanged
PathMap_crossed == [approve |-> "approve", flag |-> "reject",
                    reject |-> "flag", escalate |-> "escalate"]

\* the mapping given to add_conditional_edges
PathMap == [approve |-> "approve", flag |-> "flag",
            reject |-> "reject", escalate |-> "escalate"]

\* the node function registered under a resolver's name
NodeUpdate(node, st) ==
    CASE node = "approve" -> approve(st)
      [] node = "flag" -> flag(st)
      [] node = "reject" -> reject(st)
      [] node = "escalate" -> escalate(st)

\* a graph in which approve is followed by flag instead of END
AfterResolver_chained(node) == IF node = "approve" THEN "flag" ELSE "END"

\* the node after a resolver: add_edge(<resolver>, END)
AfterResolver(node) == "END"

\* the node after analyse_content: add_edge("analyse_content", "classify_severity")
AfterAnalyse == "classify_severity"

---------------------------------------------------------------------------
(* Inputs *)

Fragments ==
    { <<" ">>, <<"\n">>, <<"a">>, <<"h", "t", "t", "p">>, <<"s">>, <<":", "/", "/">> }

RECURSIVE Concats(_)
\* the strings made of at most n fragments
Concats(n) ==
    IF n = 0 THEN { << >> }
    ELSE LET shorter == Concats(n - 1)
         IN shorter \cup { p \o f : p \in shorter, f \in Fragments }

Contents == Concats(MaxPieces)

RECURSIVE Repeat(_, _)
Repeat(w, n) == IF n = 0 THEN << >> ELSE <<w>> \o Repeat(w, n - 1)

\* the rationales the capability may give: "", one word, ...
Rationales == { Repeat("because", n) : n \in 0..MaxRationale }

\* the severities the capability's raw answer may carry: the four labels and
\* one outside the enumeration
RawSeverities == SeverityLiteral \cup {"spam"}

\* what the capability may do: answer, time out, fail, or answer garbage
Responses ==
    [kind : {"ok"}, severity : RawSeverities, explanation : Rationales]
    \cup [kind : {"timeout", "api error", "malformed output"}]

---------------------------------------------------------------------------
(* One invocation: run_moderation(content) -> builder.invoke -> the graph *)

NoCall == << >>

Init ==
    /\ content \in Contents
    /\ resp \in Responses
    /\ pc = "START"
    /\ state = << >>
    /\ route = ""
    /\ ran = << >>
    /\ calls = 0
    /\ request = << >>
    /\ exc = ""
    /\ result = << >>
    /\ call = NoCall
    /\ log = << >>
    /\ invs = << >>

\* a graph whose entry edge goes to classify_severity
Invoke_skip_analyse ==
    /\ pc = "START"
    /\ state' = [content |-> content]
    /\ pc' = "classify_severity"
    /\ UNCHANGED <<content, resp, route, ran, calls, request, exc, result, call, log, invs>>

\* builder.invoke({"content": content}); add_edge(START, "analyse_content")
Invoke ==
    /\ pc = "START"
    /\ state' = [content |-> content]
    /\ pc' = "analyse_content"
    /\ UNCHANGED <<content, resp, route, ran, calls, request, exc, result, call, log, invs>>

AnalyseContent ==
    /\ pc = "analyse_content"
    /\ state' = Merge(state, analyse_content(state))
    /\ ran' = Append(ran, "analyse_content")
    /\ pc' = AfterAnalyse
    /\ UNCHANGED <<content, resp, route, calls, request, exc, result, call, log, invs>>

\* the node calls chain.invoke once; an exception leaves the graph
ClassifySeverity ==
    /\ pc = "classify_severity"
    /\ ran' = Append(ran, "classify_severity")
    /\ calls' = calls + 1
    /\ request' = ChainInput(state)
    /\ IF ChainRaises(resp)
       THEN /\ exc' = ExcMessage(resp)
            /\ pc' = "raised"
            /\ state' = state
       ELSE /\ state' = Merge(state, classify_severity(state, resp))
            /\ pc' = "routing_decision"
            /\ exc' = exc
    /\ UNCHANGED <<content, resp, route, result, call, log, invs>>

\* the conditional edge: routing_decision's value is looked up in the mapping
RoutingDecision ==
    /\ pc = "routing_decision"
    /\ IF RoutingRaises(state)
       THEN /\ exc' = "KeyError: severity"
            /\ pc' = "raised"
            /\ route' = route
       ELSE LET r == routing_decision(state)
            IN /\ route' = r
               /\ IF r \in DOMAIN PathMap
                  THEN pc' = PathMap[r] /\ exc' = exc
                  ELSE pc' = "raised" /\ exc' = "KeyError: unknown branch"
    /\ UNCHANGED <<content, resp, state, ran, calls, request, result, call, log, invs>>

\* the selected resolver node
Resolve ==
    /\ pc \in Resolvers
    /\ state' = Merge(state, NodeUpdate(pc, state))
    /\ ran' = Append(ran, pc)
    /\ pc' = AfterResolver(pc)
    /\ UNCHANGED <<content, resp, route, calls, request, exc, result, call, log, invs>>

\* an error result that also carries a default verdict
ErrorResult_defaulted(e) == [error |-> e, severity |-> "safe", action |-> "approve"]

\* {"error": str(e)}
ErrorResult(e) == [error |-> e]

\* builder.invoke returns the final state; run_moderation returns it
Return ==
    /\ pc = "END"
    /\ result' = state
    /\ pc' = "returned"
    /\ UNCHANGED <<content, resp, state, route, ran, calls, request, exc, call, log, invs>>

\* a handler that runs the classifier once more before giving up
Except_retry ==
    /\ pc = "raised"
    /\ IF calls < 2
       THEN pc' = "classify_severity" /\ exc' = "" /\ result' = result
       ELSE pc' = "returned" /\ exc' = exc /\ result' = ErrorResult(exc)
    /\ UNCHANGED <<content, resp, state, route, ran, calls, request, call, log, invs>>

\* except Exception as e: return {"error": str(e)}
Except ==
    /\ pc = "raised"
    /\ result' = ErrorResult(exc)
    /\ pc' = "returned"
    /\ UNCHANGED <<content, resp, state, route, ran, calls, request, exc, call, log, invs>>

Next ==
    \/ Invoke
    \/ AnalyseContent
    \/ ClassifySeverity
    \/ RoutingDecision
    \/ Resolve
    \/ Return
    \/ Except

Spec == Init /\ [][Next]_vars

\* a call in progress returns or raises: the graph runs each scheduled node,
\* and the capability's client answers or gives up
FairSpec == Spec /\ WF_vars(Next)

---------------------------------------------------------------------------
(* Direct calls of the node functions on arbitrary input states *)

\* metadata a caller may have put in the state before analyse_content runs:
\* None, {}, an unrelated key, stale analysis keys
PriorMetadataCases ==
    << NoneDict,
       EmptyDict,
       [source |-> "upload"],
       [word_count |-> 99, error |-> "stale"] >>

\* severity values a state may hold: None, the four labels, another string
SeverityCases == {NoneLabel, "spam"} \cup SeverityLiteral

\* explanation values a state may hold: None or a rationale
ExplanationCases == {NoneText} \cup Rationales

\* st with key k set to v
With(st, k, v) == Merge(st, [x \in {k} |-> v])

\* the input states of analyse_content: a content, with or without metadata
AnalyseArg(c, i) ==
    IF i = 0 THEN [content |-> c]
    ELSE [content |-> c, metadata |-> PriorMetadataCases[i]]

\* the input states of the router and the resolvers: severity and explanation
\* each missing, None or set (sev and expl are sets of at most one value)
DecideArg(sev, expl) ==
    LET base == [content |-> <<"a">>]
        s1 == IF sev = {} THEN base ELSE With(base, "severity", CHOOSE v \in sev : TRUE)
    IN IF expl = {} THEN s1 ELSE With(s1, "explanation", CHOOSE v \in expl : TRUE)

AtMostOne(S) == { {} } \cup { {v} : v \in S }

FnInit ==
    /\ content = << >>
    /\ resp = [kind |-> "timeout"]
    /\ pc = "unit"
    /\ state = << >>
    /\ route = ""
    /\ ran = << >>
    /\ calls = 0
    /\ request = << >>
    /\ exc = ""
    /\ result = << >>
    /\ log = << >>
    /\ invs = << >>
    /\ \/ \E c \in Contents, i \in 0..Len(PriorMetadataCases) :
            call = [fn |-> "", arg |-> AnalyseArg(c, i)]
       \/ \E sev \in AtMostOne(SeverityCases), expl \in AtMostOne(ExplanationCases) :
            call = [fn |-> "", arg |-> DecideArg(sev, expl)]

CallAnalyseContent ==
    /\ pc = "unit" /\ call.fn = ""
    /\ call' = [fn |-> "analyse_content", arg |-> call.arg, raised |-> FALSE,
                ret |-> analyse_content(call.arg)]
    /\ UNCHANGED <<content, resp, pc, state, route, ran, calls, request, exc, result, log, invs>>

CallRoutingDecision ==
    /\ pc = "unit" /\ call.fn = ""
    /\ call' = [fn |-> "routing_decision", arg |-> call.arg,
                raised |-> RoutingRaises(call.arg),
                ret |-> IF RoutingRaises(call.arg) THEN ""
                        ELSE routing_decision(call.arg)]
    /\ UNCHANGED <<content, resp, pc, state, route, ran, calls, request, exc, result, log, invs>>

CallResolver ==
    /\ pc = "unit" /\ call.fn = ""
    /\ \E node \in Resolvers :
         call' = [fn |-> node, arg |-> call.arg, raised |-> FALSE,
                  ret |-> NodeUpdate(node, call.arg)]
    /\ UNCHANGED <<content, resp, pc, state, route, ran, calls, request, exc, result, log, invs>>

FnNext ==
    \/ CallAnalyseContent
    \/ CallRoutingDecision
    \/ CallResolver

FnSpec == FnInit /\ [][FnNext]_vars

---------------------------------------------------------------------------
(* Repeated direct calls of the resolvers *)

IdemInit ==
    /\ content = << >>
    /\ resp = [kind |-> "timeout"]
    /\ pc = "repeat"
    /\ state = << >>
    /\ route = ""
    /\ ran = << >>
    /\ calls = 0
    /\ request = << >>
    /\ exc = ""
    /\ result = << >>
    /\ log = << >>
    /\ invs = << >>
    /\ \E sev \in AtMostOne(SeverityCases), expl \in AtMostOne(ExplanationCases) :
         call = [fn |-> "", arg |-> DecideArg(sev, expl)]

\* a resolver is called on the state at hand; the caller then either keeps
\* that state for the next call or writes the returned update into it
CallResolverAgain ==
    /\ pc = "repeat" /\ Len(log) < MaxCalls
    /\ \E node \in Resolvers, write \in BOOLEAN :
         LET ret == NodeUpdate(node, call.arg)
         IN /\ log' = Append(log, [fn |-> node, arg |-> call.arg, ret |-> ret])
            /\ call' = [fn |-> node,
                        arg |-> IF write THEN Merge(call.arg, ret) ELSE call.arg,
                        raised |-> FALSE, ret |-> ret]
    /\ UNCHANGED <<content, resp, pc, state, route, ran, calls, request, exc, result, invs>>

IdemNext == CallResolverAgain

IdemSpec == IdemInit /\ [][IdemNext]_vars

---------------------------------------------------------------------------
(* Concurrent invocations: several run_moderation calls on the one compiled *)
(* graph (builder) and the one model client, their node steps interleaved  *)

Invocations == 1..NInvocations

\* contents and answers of the concurrent invocations: empty and non-empty
\* content; a valid answer with and without rationale, an answer outside the
\* enumeration, a timeout
ConcContents == { << >>, <<"a", " ">> \o Http }

ConcResponses ==
    { [kind |-> "ok", severity |-> "safe", explanation |-> << >>],
      [kind |-> "ok", severity |-> "harmful", explanation |-> <<"because">>],
      [kind |-> "ok", severity |-> "spam", explanation |-> << >>],
      [kind |-> "timeout"] }

\* an invocation that has not started
NewInvocation(c, r) ==
    [content |-> c, resp |-> r, pc |-> "START", state |-> << >>, route |-> "",
     ran |-> << >>, calls |-> 0, exc |-> "", result |-> << >>]

ConcInit ==
    /\ content = << >>
    /\ resp = [kind |-> "timeout"]
    /\ pc = "concurrent"
    /\ state = << >>
    /\ route = ""
    /\ ran = << >>
    /\ calls = 0
    /\ request = << >>
    /\ exc = ""
    /\ result = << >>
    /\ call = NoCall
    /\ log = << >>
    /\ invs \in [Invocations -> { NewInvocation(c, r) : c \in ConcContents, r \in ConcResponses }]

\* a step of a concurrent invocation touches nothing but invs
ConcFrame ==
    /\ pc = "concurrent"
    /\ UNCHANGED <<content, resp, pc, state, route, ran, calls, request, exc, result, call, log>>

\* one module-level state shared by the invocations: the first's, once it exists
NodeInput_shared(iv, i) ==
    IF "content" \in DOMAIN iv[1].state THEN iv[1].state ELSE iv[i].state

\* the state a node of invocation i is handed: the channels of that
\* invocation, created by its own builder.invoke call
NodeInput(iv, i) == iv[i].state

ConcInvoke(i) ==
    /\ ConcFrame
    /\ invs[i].pc = "START"
    /\ invs' = [invs EXCEPT ![i] = [@ EXCEPT !.state = [content |-> invs[i].content],
                                             !.pc = "analyse_content"]]

ConcAnalyseContent(i) ==
    /\ ConcFrame
    /\ invs[i].pc = "analyse_content"
    /\ invs' = [invs EXCEPT ![i] =
                  [@ EXCEPT !.state = Merge(@, analyse_content(NodeInput(invs, i))),
                            !.ran = Append(@, "analyse_content"),
                            !.pc = AfterAnalyse]]

ConcClassifySeverity(i) ==
    /\ ConcFrame
    /\ invs[i].pc = "classify_severity"
    /\ invs' = [invs EXCEPT ![i] =
                  IF ChainRaises(@.resp)
                  THEN [@ EXCEPT !.ran = Append(@, "classify_severity"),
                                 !.calls = @ + 1,
                                 !.exc = ExcMessage(invs[i].resp),
                                 !.pc = "raised"]
                  ELSE [@ EXCEPT !.ran = Append(@, "classify_severity"),
                                 !.calls = @ + 1,
                                 !.state = Merge(@, classify_severity(NodeInput(invs, i), invs[i].resp)),
                                 !.pc = "routing_decision"]]

ConcRoutingDecision(i) ==
    /\ ConcFrame
    /\ invs[i].pc = "routing_decision"
    /\ LET st == NodeInput(invs, i)
       IN invs' = [invs EXCEPT ![i] =
                  IF RoutingRaises(st)
                  THEN [@ EXCEPT !.exc = "KeyError: severity", !.pc = "raised"]
                  ELSE IF routing_decision(st) \in DOMAIN PathMap
                  THEN [@ EXCEPT !.route = routing_decision(st),
                                 !.pc = PathMap[routing_decision(st)]]
                  ELSE [@ EXCEPT !.route = routing_decision(st),
                                 !.exc = "KeyError: unknown branch",
                                 !.pc = "raised"]]

ConcResolve(i) ==
    /\ ConcFrame
    /\ invs[i].pc \in Resolvers
    /\ invs' = [invs EXCEPT ![i] =
                  [@ EXCEPT !.state = Merge(@, NodeUpdate(invs[i].pc, NodeInput(invs, i))),
                            !.ran = Append(@, invs[i].pc),
                            !.pc = AfterResolver(invs[i].pc)]]

ConcReturn(i) ==
    /\ ConcFrame
    /\ invs[i].pc = "END"
    /\ invs' = [invs EXCEPT ![i] = [@ EXCEPT !.result = invs[i].state, !.pc = "returned"]]

ConcExcept(i) ==
    /\ ConcFrame
    /\ invs[i].pc = "raised"
    /\ invs' = [invs EXCEPT ![i] = [@ EXCEPT !.result = ErrorResult(invs[i].exc),
                                             !.pc = "returned"]]

\* invocation i takes its next step
ConcStep(i) ==
    \/ ConcInvoke(i)
    \/ ConcAnalyseContent(i)
    \/ ConcClassifySeverity(i)
    \/ ConcRoutingDecision(i)
    \/ ConcResolve(i)
    \/ ConcReturn(i)
    \/ ConcExcept(i)

ConcNext == \E i \in Invocations : ConcStep(i)

ConcSpec == ConcInit /\ [][ConcNext]_vars

---------------------------------------------------------------------------
(* Claims *)

\* the Router's table, as the claims state it
RouterTable == [safe |-> "approve", questionable |-> "flag",
                inappropriate |-> "reject", harmful |-> "escalate"]

IsResolver(node) == node \in {"approve", "flag", "reject", "escalate"}

\* the resolvers that have run in this invocation, in order
ResolversRun == SelectSeq(ran, IsResolver)

\* run_moderation has returned a final state, not an error
Succeeded == pc = "returned" /\ "error" \notin DOMAIN result

\* run_moderation has returned {"error": ...}
Failed == pc = "returned" /\ "error" \in DOMAIN result

\* C1: called on a state whose severity is one of the four labels,
\* routing_decision does not raise and returns the label's action: safe ->
\* approve, questionable -> flag, inappropriate -> reject, harmful -> escalate
\* (one value per input: the result is a function of the severity alone).
C1_RouterMapsLabels ==
    (/\ call.fn = "routing_decision"
     /\ "severity" \in DOMAIN call.arg
     /\ call.arg["severity"] \in DOMAIN RouterTable)
    => (~call.raised /\ call.ret = RouterTable[call.arg["severity"]])

C1_Witness ==
    /\ call.fn = "routing_decision"
    /\ "severity" \in DOMAIN call.arg
    /\ call.arg["severity"] = "inappropriate"
    /\ call.ret = "reject"

\* C2: in an invocation at most one resolver node runs, and the one that runs
\* is the one routing_decision named for this invocation.
C2_OneResolverAsRouted ==
    /\ Len(ResolversRun) <= 1
    /\ \A i \in 1..Len(ResolversRun) : ResolversRun[i] = route

C2_Witness == pc = "returned" /\ ResolversRun = <<"flag">> /\ route = "flag"

\* C3: when an invocation has returned a final state, (severity, action) is
\* one of (safe, approve), (questionable, flag), (inappropriate, reject),
\* (harmful, escalate), and severity is the one the capability answered.
C3_SeverityActionPairs ==
    Succeeded =>
        /\ <<result["severity"], result["action"]>> \in
             { <<"safe", "approve">>, <<"questionable", "flag">>,
               <<"inappropriate", "reject">>, <<"harmful", "escalate">> }
        /\ result["severity"] = resp.severity

C3_Witness == Succeeded /\ result["severity"] = "harmful" /\ result["action"] = "escalate"

\* the capability did not deliver a valid classification
ClassificationFailed == resp.kind # "ok" \/ resp.severity \notin {"safe", "questionable", "inappropriate", "harmful"}

\* no graph node has run twice
NoNodeTwice == \A i, j \in 1..Len(ran) : ran[i] = ran[j] => i = j

\* the final state holds severity, action, explanation and metadata
CompleteResult ==
    /\ {"severity", "action", "explanation", "metadata"} \subseteq DOMAIN result
    /\ "error" \notin DOMAIN result
    /\ result["severity"] \in SeverityLiteral
    /\ result["action"] \in ActionLiteral

\* the result is the classification failure, and nothing else
FailureResult ==
    /\ DOMAIN result = {"error"}
    /\ ClassificationFailed

\* C4: every invocation ends; no node runs twice; and it ends either with a
\* final state holding severity, action, explanation and metadata, or with
\* the classification failure, never both and never anything else.
C4_EndsInOneOutcome ==
    /\ <>(pc = "returned")
    /\ [](NoNodeTwice /\ calls <= 1)
    /\ [](pc = "returned" => (CompleteResult /\ ~FailureResult) \/ (FailureResult /\ ~CompleteResult))

C4_Witness ==
    /\ pc = "returned"
    /\ ran = <<"analyse_content", "classify_severity", "approve">>
    /\ DOMAIN result = {"content", "metadata", "severity", "explanation", "action"}

\* C5: when the capability fails (times out, errors, answers garbage), no
\* resolver runs, the state never gets a severity or an action, and
\* run_moderation returns {error: message} and nothing else.
C5_FailureGivesErrorOnly ==
    resp.kind # "ok" =>
        /\ ResolversRun = << >> /\ pc \notin {"approve", "flag", "reject", "escalate"}
        /\ "severity" \notin DOMAIN state /\ "action" \notin DOMAIN state
        /\ pc = "returned" => (DOMAIN result = {"error"} /\ result["error"] = resp.kind)

C5_Witness ==
    /\ pc = "returned" /\ resp.kind = "timeout"
    /\ calls = 1
    /\ result = [error |-> "timeout"]

\* C6: called on a state whose severity is missing, None or a string outside
\* the four labels, routing_decision does not raise and returns approve.
C6_RouterFallbackApprove ==
    (/\ call.fn = "routing_decision"
     /\ ("severity" \in DOMAIN call.arg => call.arg["severity"] \notin DOMAIN RouterTable))
    => (~call.raised /\ call.ret = "approve")

\* C7: the state never holds a severity outside the four labels, and an
\* answer of the capability whose severity is outside them ends the
\* invocation with the error result.
C7_BadLabelRejected ==
    /\ "severity" \in DOMAIN state => state["severity"] \in {"safe", "questionable", "inappropriate", "harmful"}
    /\ (pc = "returned" /\ resp.kind = "ok" /\ resp.severity \notin {"safe", "questionable", "inappropriate", "harmful"})
       => (Failed /\ "severity" \notin DOMAIN result /\ ResolversRun = << >>)

C7_Witness ==
    /\ pc = "returned" /\ resp.kind = "ok" /\ resp.severity = "spam"
    /\ Failed

\* every character of c is whitespace (the empty string included)
OnlyWhitespace(c) == \A i \in 1..Len(c) : c[i] \in {" ", "\n"}

\* state st after the node's update upd has been written into it
After(st, upd) == [k \in DOMAIN st \cup DOMAIN upd |-> IF k \in DOMAIN upd THEN upd[k] ELSE st[k]]

\* C8: for content that is empty or only whitespace, analyse_content leaves
\* metadata equal to exactly {error: "Content is empty"}, whatever metadata
\* the state held before.
C8_BlankContentMetadata ==
    (call.fn = "analyse_content" /\ OnlyWhitespace(call.arg["content"]))
    => /\ DOMAIN call.ret = {"metadata"}
       /\ DOMAIN After(call.arg, call.ret)["metadata"] = {"error"}
       /\ After(call.arg, call.ret)["metadata"]["error"] = "Content is empty"

C8_Witness ==
    /\ call.fn = "analyse_content"
    /\ call.arg["content"] = <<" ", "\n">>
    /\ "metadata" \in DOMAIN call.arg
    /\ DOMAIN call.arg["metadata"] = {"word_count", "error"}
    /\ call.ret = [metadata |-> [error |-> "Content is empty"]]

\* the invocation went through the classifier and exactly one resolver, the
\* routed one, and returned a final state whose metadata.error is the marker
CompletedWithEmptyMarker ==
    /\ Succeeded
    /\ Len(ran) = 3 /\ ran[1] = "analyse_content" /\ ran[2] = "classify_severity"
    /\ ran[3] \in {"approve", "flag", "reject", "escalate"} /\ ran[3] = route
    /\ "action" \in DOMAIN result
    /\ "error" \in DOMAIN result["metadata"]
    /\ result["metadata"]["error"] = "Content is empty"

\* C9: an invocation on empty (or whitespace-only) content whose capability
\* answers validly goes on through the classifier, the router and one
\* resolver and returns a final state with metadata.error = "Content is empty".
C9_EmptyContentCompletes ==
    (pc = "START" /\ OnlyWhitespace(content) /\ ~ClassificationFailed)
    ~> CompletedWithEmptyMarker

C9_Witness == content = << >> /\ CompletedWithEmptyMarker /\ calls = 1

\* the number of whitespace-delimited tokens of c: the positions where a
\* token starts
TokenCount(c) ==
    Cardinality({ i \in 1..Len(c) :
        c[i] \notin {" ", "\n"} /\ (i = 1 \/ c[i - 1] \in {" ", "\n"}) })

\* "http://" or "https://" occurs in c
UrlOccurs(c) ==
    \E i \in 1..Len(c) :
        \/ (i + 6 <= Len(c) /\ SubSeq(c, i, i + 6) = <<"h", "t", "t", "p", ":", "/", "/">>)
        \/ (i + 7 <= Len(c) /\ SubSeq(c, i, i + 7) = <<"h", "t", "t", "p", "s", ":", "/", "/">>)

\* the metadata analyse_content leaves has the three analysis keys, right
AnalysisRight(c, m) ==
    /\ {"content_length", "word_count", "has_urls"} \subseteq DOMAIN m
    /\ m["word_count"] = TokenCount(c)
    /\ m["content_length"] = Len(c)
    /\ m["has_urls"] = UrlOccurs(c)

\* C10 as stated: for all content other than the empty string.
C10_NonEmptyContentAnalysed ==
    (call.fn = "analyse_content" /\ call.arg["content"] # << >>)
    => AnalysisRight(call.arg["content"], call.ret["metadata"])

\* C10, amended: for all content that is neither empty nor only whitespace,
\* word_count is the number of whitespace-delimited tokens, content_length
\* the length, and has_urls holds exactly when "http://" or "https://" occurs.
C10_NonBlankContentAnalysed ==
    (call.fn = "analyse_content" /\ ~OnlyWhitespace(call.arg["content"]))
    => AnalysisRight(call.arg["content"], call.ret["metadata"])

C10_Witness ==
    /\ call.fn = "analyse_content"
    /\ call.arg["content"] = <<"\n", "h", "t", "t", "p", ":", "/", "/">>
    /\ "metadata" \in DOMAIN call.arg
    /\ call.arg["metadata"] = [word_count |-> 99, error |-> "stale"]
    /\ call.ret["metadata"]["word_count"] = 1
    /\ call.ret["metadata"]["content_length"] = 8
    /\ call.ret["metadata"]["has_urls"] = TRUE

\* the fixed text each resolver puts before and after the rationale
FixedBefore ==
    [approve |-> <<"approve:approved-and-safe", "Analysis:">>,
     flag |-> <<"flag:classified-questionable", "Reason:">>,
     reject |-> <<"reject:classified-inappropriate", "Reason:">>,
     escalate |-> <<"escalate:classified-harmful", "Reason:">>]

FixedAfter ==
    [approve |-> << >>,
     flag |-> <<"flag:please-revise">>,
     reject |-> <<"reject:cannot-be-published">>,
     escalate |-> <<"escalate:escalated-for-review">>]

\* the number of places of text where word occurs
Occurrences(word, text) == Cardinality({ i \in 1..Len(text) : text[i] = word })

\* C11: once a resolver has run in an invocation, action is that resolver's
\* identifier and explanation is the resolver's fixed text around the
\* capability's rationale, embedded unchanged and once; so explanation is
\* never empty, also when the rationale is the empty string.
C11_ResolverComposesExplanation ==
    ResolversRun # << >> =>
        LET r == ResolversRun[1]
        IN /\ state["action"] = r
           /\ state["explanation"] = FixedBefore[r] \o resp.explanation \o FixedAfter[r]
           /\ Occurrences("because", state["explanation"]) = Len(resp.explanation)
           /\ state["explanation"] # << >>

C11_Witness ==
    /\ ResolversRun = <<"approve">>
    /\ resp.explanation = << >>
    /\ state["explanation"] = <<"approve:approved-and-safe", "Analysis:">>

RunAlone(c, r) ==
    LET s0 == [content |-> c]
        s1 == Merge(s0, analyse_content(s0))
    IN IF ChainRaises(r) THEN ErrorResult(ExcMessage(r))
       ELSE LET s2 == Merge(s1, classify_severity(s1, r))
            IN Merge(s2, NodeUpdate(PathMap[routing_decision(s2)], s2))

\* C13: under every interleaving of the steps of concurrent invocations,
\* what an invocation returns is what it returns running alone on its own
\* content and its own answer, and its state always holds its own content.
C13_InvocationsIndependent ==
    \A i \in DOMAIN invs :
        /\ "content" \in DOMAIN invs[i].state => invs[i].state["content"] = invs[i].content
        /\ invs[i].pc = "returned" => invs[i].result = RunAlone(invs[i].content, invs[i].resp)

C13_Witness ==
    /\ DOMAIN invs # {}
    /\ invs[1].pc = "returned" /\ invs[2].pc = "returned"
    /\ invs[1].content = << >> /\ invs[2].content # << >>
    /\ invs[1].resp.kind = "timeout"
    /\ invs[2].resp.kind = "ok" /\ invs[2].resp.severity = "harmful"
    /\ invs[2].result["action"] = "escalate"
    /\ invs[1].result = [error |-> "timeout"]

\* C14: the nodes run in the order analyse_content, classify_severity, the
\* routed resolver; the router decides after the classifier; action is set
\* only in a state that holds severity; and the classifier was shown the
\* metadata analyse_content had already written.
C14_StagesInOrder ==
    /\ Len(ran) <= 3
    /\ Len(ran) >= 1 => ran[1] = "analyse_content"
    /\ Len(ran) >= 2 => ran[2] = "classify_severity"
    /\ Len(ran) >= 3 => (ran[3] \in {"approve", "flag", "reject", "escalate"} /\ ran[3] = route)
    /\ route # "" => (Len(ran) >= 2 /\ "severity" \in DOMAIN state)
    /\ "action" \in DOMAIN state => "severity" \in DOMAIN state
    /\ "severity" \in DOMAIN state => "metadata" \in DOMAIN state
    /\ calls > 0 => ("metadata" \in DOMAIN state /\ request.metadata = [listing |-> state["metadata"]])

C14_Witness ==
    /\ pc = "escalate"
    /\ ran = <<"analyse_content", "classify_severity">>
    /\ DOMAIN state = {"content", "metadata", "severity", "explanation"}

\* C15: called on a state whose severity is outside the four labels,
\* routing_decision returns one of the branch keys of the conditional edge
\* (approve, flag, reject, escalate), so the graph can go on to a resolver.
C15_FallbackIsBranchKey ==
    (/\ call.fn = "routing_decision"
     /\ "severity" \in DOMAIN call.arg
     /\ call.arg["severity"] \notin {"safe", "questionable", "inappropriate", "harmful"})
    => (~call.raised /\ call.ret \in {"approve", "flag", "reject", "escalate"})

\* C16: once analyse_content has run in an invocation, metadata has the key
\* error exactly when content is empty or only whitespace; without error it
\* has content_length, word_count and has_urls, with error none of them.
C16_MetadataShapes ==
    Len(ran) >= 1 =>
        LET m == state["metadata"]
            keys == {"content_length", "word_count", "has_urls"}
        IN /\ "error" \in DOMAIN m <=> OnlyWhitespace(content)
           /\ "error" \notin DOMAIN m => keys \subseteq DOMAIN m
           /\ "error" \in DOMAIN m => DOMAIN m \cap keys = {}

C16_Witness ==
    /\ Succeeded
    /\ content = <<"\n", " ">>
    /\ DOMAIN result["metadata"] = {"error"}

\* C17: no step changes content; the classifier's step leaves metadata as it
\* was and sets no action; a resolver's step leaves content, severity and
\* metadata as they were and adds no key but action; so the final state's
\* metadata is the one the classifier was shown and its severity the one
\* the capability answered.
C17_StagesKeepWhatTheyDoNotOwn ==
    [][ /\ "content" \in DOMAIN state =>
             ("content" \in DOMAIN state' /\ state'["content"] = state["content"]
              /\ state["content"] = content)
        /\ pc = "classify_severity" =>
             (state'["metadata"] = state["metadata"] /\ "action" \notin DOMAIN state')
        /\ pc \in {"approve", "flag", "reject", "escalate"} =>
             /\ state'["severity"] = state["severity"]
             /\ state'["metadata"] = state["metadata"]
             /\ DOMAIN state' = DOMAIN state \cup {"action"}
        /\ (pc' = "returned" /\ "error" \notin DOMAIN result') =>
             /\ result'["metadata"] = request.metadata.listing
             /\ result'["severity"] = resp.severity
             /\ result'["content"] = content
      ]_vars

C17_Witness ==
    /\ Succeeded
    /\ content = <<"a">> /\ resp.severity = "inappropriate"
    /\ result["metadata"] = [content_length |-> 1, word_count |-> 1, has_urls |-> FALSE]
    /\ result["severity"] = "inappropriate"

\* C18: called on a state whose explanation is missing or None, a resolver
\* does not raise and returns its fixed text with nothing in the rationale's
\* place.
C18_AbsentExplanationEmptyRationale ==
    (/\ call.fn \in {"approve", "flag", "reject", "escalate"}
     /\ ("explanation" \in DOMAIN call.arg => call.arg["explanation"] = NoneText))
    => /\ ~call.raised
       /\ call.ret["explanation"] = FixedBefore[call.fn] \o FixedAfter[call.fn]

\* C19: chain.invoke is called at most once in an invocation, once per run
\* of classify_severity; after a failed call no node runs and the classifier
\* is not run again; after a successful call the classifier is not re-entered.
C19_CapabilityCalledOnce ==
    /\ calls <= 1
    /\ Occurrences("classify_severity", ran) = calls
    /\ exc # "" =>
         /\ pc \in {"raised", "returned"}
         /\ ran = <<"analyse_content", "classify_severity">>
         /\ route = ""
    /\ pc \in {"routing_decision", "approve", "flag", "reject", "escalate", "END"} => calls = 1

C19_Witness ==
    /\ Failed
    /\ resp.kind = "api error"
    /\ calls = 1
    /\ ran = <<"analyse_content", "classify_severity">>

=============================================================================
